---- MODULE Spec2Model ----
(***************************************************************************)
(* Verification model of poptop (github.com/bakks/poptop).                 *)
(*                                                                         *)
(*  - BoundedSeries / fifoSet: the fixed-capacity sample buffer and its    *)
(*    read-time moving average.                                            *)
(*  - layout / layoutR / nextPower2: the recursive binary-split layout.    *)
(*                                                                         *)
(* float64 values are modelled as extended rationals <<num, den>>:         *)
(* den > 0 is a finite value in lowest terms, <<0, 0>> is NaN (0/0) and    *)
(* <<1, 0>>, <<-1, 0>> are the infinities.  Samples are small integers, so *)
(* every sum the code forms is exact in float64 as well.  Equality of two  *)
(* results is the equality of the repository's test helper assertSliceEq,  *)
(* which treats NaN as equal to NaN.                                       *)
(***************************************************************************)
EXTENDS Integers, Sequences, FiniteSets, TLC

\* ------------------------------------------------------------------ bounds
MaxN == 3          \* largest requested capacity (numValues) explored
MaxVal == 1        \* samples pushed are 0..MaxVal
MaxPushes == 7     \* longest push sequence explored
MaxWindow == 4     \* smoothing windows passed to SmoothedValues are -1..MaxWindow
MaxWidgets == 9    \* longest widget list handed to layout
MaxWidgetId == 1   \* widget identifiers used are 0..MaxWidgetId
MaxConfig == 2     \* longest config.Widgets list handed to getWidgets
MaxStarts == 2     \* getWidgets is not called once a constructor ran this often
MaxTicks == 3      \* tick bodies run by the counter samplers
MaxDiskIOTicks == 2 \* tick bodies run by the Disk IO sampler
MaxProcs == 3      \* longest process list GetPsProcesses returns
MaxAddValues == 5  \* AddValue calls made while callers hold slices of the buffer
MaxHeld == 2       \* slices returned by Values() that callers still hold
MaxPerc == 1       \* CPU and memory percentages of a process are 0..MaxPerc

\* --------------------------------------------------------- widget identifiers
WidgetCPULoad == 0

WidgetCPUPerc == 1

WidgetNetworkIO == 2

WidgetDiskIOPS == 3

WidgetDiskIO == 4

WidgetTopCPU == 5

WidgetTopMem == 6

VARIABLES
    series,     \* the BoundedSeries object: values, numValues, maxValues, highWater
    pushed,     \* every value handed to AddValue so far, in arrival order
    lastCall,   \* the method of BoundedSeries that ran last
    window,     \* the windowSize argument of the last SmoothedValues call
    ret,        \* the slice returned by the last Values / SmoothedValues call
    widgets,    \* the Widgets slice built by newWidgets, in configured order
    pc,         \* position of main: "newWidgets", then "done" once layout returned
    tree,       \* the []container.Option returned by layout
    err,        \* the error returned by layout
    trace,      \* the layoutR invocations and the widget indices read by the last layout call
    tile,       \* tile-mode layout: the two configuration flags and the tree built with them
    wcache,     \* the widget cache and the samplers started through it
    net,        \* the closure state of the network chart's sampler
    sched,      \* the sampler goroutines, their tickers and the shared context
    app,        \* main: the parsed flags, the PoptopConfig, its position and what it started
    top,        \* topProcesses: the ps rows read, config.TopRowsShown and the two lists returned
    heap        \* the arrays behind this.values and the slices Values() handed out

seriesVars == <<series, pushed, lastCall, window, ret>>

layoutVars == <<widgets, pc, tree, err, trace>>

vars == <<series, pushed, lastCall, window, ret, widgets, pc, tree, err, trace,
          tile, wcache, net, sched, app, top, heap>>

\* ------------------------------------------------------------- arithmetic
Min(a, b) == IF a < b THEN a ELSE b

Max(a, b) == IF a > b THEN a ELSE b

Abs(a) == IF a < 0 THEN -a ELSE a

RECURSIVE Gcd(_, _)
Gcd(a, b) == IF b = 0 THEN a ELSE Gcd(b, a % b)

NaN == <<0, 0>>

Real(n) == <<n, 1>>

IsNaN(f) == f = NaN

\* lowest terms, positive denominator; n/0 is an infinity or NaN
Norm(p, q) ==
    IF q = 0 THEN <<(IF p > 0 THEN 1 ELSE IF p < 0 THEN -1 ELSE 0), 0>>
    ELSE LET s == IF q < 0 THEN -1 ELSE 1
             g == Gcd(Abs(p), Abs(q))
         IN  <<(s * p) \div g, (s * q) \div g>>

FAdd(a, b) ==
    IF a[2] = 0 \/ b[2] = 0
    THEN IF IsNaN(a) \/ IsNaN(b) THEN NaN
         ELSE IF a[2] = 0 /\ b[2] = 0 THEN (IF a = b THEN a ELSE NaN)
         ELSE IF a[2] = 0 THEN a ELSE b
    ELSE Norm(a[1] * b[2] + b[1] * a[2], a[2] * b[2])

FNeg(a) == <<-a[1], a[2]>>

FSub(a, b) == FAdd(a, FNeg(b))

\* a / float64(n)
FDivInt(a, n) ==
    IF IsNaN(a) THEN NaN
    ELSE IF a[2] = 0 THEN (IF n = 0 THEN NaN ELSE IF n > 0 THEN a ELSE FNeg(a))
    ELSE Norm(a[1], a[2] * n)

\* values[lo:hi] of a Go slice (0-based, hi exclusive)
Slice(s, lo, hi) == SubSeq(s, lo + 1, hi)

RECURSIVE SumInts(_)
SumInts(s) == IF s = <<>> THEN 0 ELSE Head(s) + SumInts(Tail(s))

\* ---------------------------------------------------------------- fifoSet
newFifoSet(n) == [numValues |-> n, values |-> <<>>, sum |-> Real(0)]

\* fifoSet.AddValue that forgets to take the evicted value out of the sum
fifoAddValueKeepsSum(this, v) ==
    LET vals == Append(this.values, v)
        sum  == FAdd(this.sum, v)
    IN  IF Len(vals) > this.numValues
        THEN [this EXCEPT !.values = Tail(vals), !.sum = sum]
        ELSE [this EXCEPT !.values = vals, !.sum = sum]

fifoAddValue(this, v) ==
    LET vals == Append(this.values, v)
        sum  == FAdd(this.sum, v)
    IN  IF Len(vals) > this.numValues
        THEN [this EXCEPT !.values = Tail(vals), !.sum = FSub(sum, vals[1])]
        ELSE [this EXCEPT !.values = vals, !.sum = sum]

\* fifoSet.Avg that divides by the window size instead of the element count
fifoAvgFullWindow(this) == FDivInt(this.sum, this.numValues)

fifoAvg(this) == FDivInt(this.sum, Len(this.values))

\* ---------------------------------------------------------- BoundedSeries
NewBoundedSeries(n) ==
    [values    |-> [i \in 1..(n * 2) |-> NaN],
     numValues |-> n,
     maxValues |-> n * 2,
     highWater |-> 0]

\* AddValue that drops the new sample instead of the oldest when full
AddValueKeepsOldest(this, v) ==
    IF this.highWater < this.maxValues
    THEN [this EXCEPT !.values[this.highWater + 1] = v,
                      !.highWater = this.highWater + 1]
    ELSE LET newValues == Append(this.values, v)
         IN  [this EXCEPT !.values = Slice(newValues, 0, this.maxValues)]

AddValue(this, v) ==
    IF this.highWater < this.maxValues
    THEN [this EXCEPT !.values[this.highWater + 1] = v,
                      !.highWater = this.highWater + 1]
    ELSE LET newValues == Append(this.values, v)
         IN  IF Len(newValues) > this.maxValues
             THEN [this EXCEPT !.values =
                       Slice(newValues, Len(newValues) - this.maxValues, Len(newValues))]
             ELSE [this EXCEPT !.values = newValues]

\* Values that left-pads the window with NaN up to numValues elements
ValuesPadded(this) ==
    LET start == Max(0, this.highWater - this.numValues)
        end   == Min(this.highWater, start + this.numValues)
    IN  [i \in 1..(this.numValues - (end - start)) |-> NaN]
            \o Slice(this.values, start, end)

\* Values that always starts at the oldest slot of the buffer
ValuesFromOldest(this) ==
    Slice(this.values, 0, Min(this.highWater, this.numValues))

\* Values that does not clip the end of the window to highWater
ValuesUnclipped(this) ==
    LET start == Max(0, this.highWater - this.numValues)
    IN  Slice(this.values, start, start + this.numValues)

Values(this) ==
    LET start == Max(0, this.highWater - this.numValues)
        end   == Min(this.highWater, start + this.numValues)
    IN  Slice(this.values, start, end)

\* the state of the first loop of SmoothedValues at index i
RECURSIVE SmoothLoop(_, _, _, _, _)
SmoothLoop(this, i, set, out, j) ==
    IF i < this.highWater
    THEN LET set2 == fifoAddValue(set, this.values[i + 1])
         IN  IF i >= this.highWater - this.numValues
             THEN SmoothLoop(this, i + 1, set2, [out EXCEPT ![j + 1] = fifoAvg(set2)], j + 1)
             ELSE SmoothLoop(this, i + 1, set2, out, j)
    ELSE [k \in 1..Len(out) |-> IF k > j THEN NaN ELSE out[k]]

\* SmoothedValues whose pass-through test is windowSize < 1
SmoothedValuesBelowOne(this, windowSize) ==
    IF windowSize < 1
    THEN Values(this)
    ELSE LET start == Max(0, this.highWater - this.numValues - windowSize)
         IN  SmoothLoop(this, start, newFifoSet(windowSize),
                        [k \in 1..this.numValues |-> Real(0)], 0)

SmoothedValues(this, windowSize) ==
    IF windowSize <= 1
    THEN Values(this)
    ELSE LET start == Max(0, this.highWater - this.numValues - windowSize)
         IN  SmoothLoop(this, start, newFifoSet(windowSize),
                        [k \in 1..this.numValues |-> Real(0)], 0)

\* a call of Values(): the receiver as the call leaves it and the slice
\* returned; the method assigns to no field and no element of this.values
ValuesCall(this) == [this |-> this, ret |-> Values(this)]

\* SmoothedValues that writes the averages back over the samples it read
SmoothedValuesCallInPlace(this, windowSize) ==
    LET out   == SmoothedValues(this, windowSize)
        first == Max(0, this.highWater - this.numValues)
    IN  [this |-> IF windowSize <= 1 THEN this
                  ELSE [this EXCEPT !.values =
                           [i \in 1..Len(@) |->
                               IF i > first /\ i <= this.highWater
                               THEN out[i - first] ELSE @[i]]],
         ret  |-> out]

\* a call of SmoothedValues(windowSize): the receiver as the call leaves it
\* and the slice returned; set and series are locals made by the call, and
\* the loops only read this.values and this.highWater
SmoothedValuesCall(this, windowSize) ==
    [this |-> this, ret |-> SmoothedValues(this, windowSize)]

\* ---------------------------------------------------------------- aliasing
\* A slice is [arr, off, len, cap]: the elements off .. off+len-1 (counted
\* from 0) of the array arrays[arr], which has room up to off+cap.

\* NewBoundedSeries(numValues) with this.values = make([]float64, maxValues)
\* filled with NaN, as the only array
newHeap(numValues) ==
    [arrays    |-> << [i \in 1..(numValues * 2) |-> NaN] >>,
     values    |-> [arr |-> 1, off |-> 0, len |-> numValues * 2, cap |-> numValues * 2],
     numValues |-> numValues,
     maxValues |-> numValues * 2,
     highWater |-> 0,
     held      |-> <<>>,
     adds      |-> 0]

\* the elements a slice shows now
ReadSlice(h, sl) == SubSeq(h.arrays[sl.arr], sl.off + 1, sl.off + sl.len)

\* the capacities append may give the new array when it has to grow a slice
\* of capacity old to hold needed elements: at least needed, usually double
GrownCaps(old, needed) == {needed} \cup {c \in {2 * old} : c >= needed}

\* append(s, v): in place when the capacity allows, else into a new array
\* of capacity newCap that the elements of s are copied to
appendTo(h, s, v, newCap) ==
    IF s.len < s.cap
    THEN [heap  |-> [h EXCEPT !.arrays[s.arr] =
                        [i \in 1..Max(Len(@), s.off + s.len + 1) |->
                            IF i = s.off + s.len + 1 THEN v ELSE @[i]]],
          slice |-> [s EXCEPT !.len = @ + 1]]
    ELSE [heap  |-> [h EXCEPT !.arrays = Append(@, Append(ReadSlice(h, s), v))],
          slice |-> [arr |-> Len(h.arrays) + 1, off |-> 0, len |-> s.len + 1,
                     cap |-> newCap]]

\* s[lo:]
SliceFrom(s, lo) == [s EXCEPT !.off = @ + lo, !.len = @ - lo, !.cap = @ - lo]

\* AddValue that, when the buffer is full, shifts the samples down in the
\* array and stores the new one in the last slot
heapAddValueShift(h, v, newCap) ==
    IF h.highWater < h.maxValues
    THEN [h EXCEPT !.arrays[h.values.arr][h.values.off + h.highWater + 1] = v,
                   !.highWater = @ + 1, !.adds = @ + 1]
    ELSE [h EXCEPT !.arrays[h.values.arr] =
                       [i \in 1..Len(@) |->
                           IF i <= h.values.off \/ i > h.values.off + h.values.len
                           THEN @[i]
                           ELSE IF i = h.values.off + h.values.len THEN v
                           ELSE @[i + 1]],
                   !.adds = @ + 1]

\* BoundedSeries.AddValue on the arrays
heapAddValue(h, v, newCap) ==
    IF h.highWater < h.maxValues
    THEN [h EXCEPT !.arrays[h.values.arr][h.values.off + h.highWater + 1] = v,
                   !.highWater = @ + 1, !.adds = @ + 1]
    ELSE LET a         == appendTo(h, h.values, v, newCap)
             newValues == IF a.slice.len > h.maxValues
                          THEN SliceFrom(a.slice, a.slice.len - h.maxValues)
                          ELSE a.slice
         IN  [a.heap EXCEPT !.values = newValues, !.adds = @ + 1]

\* BoundedSeries.Values on the arrays: this.values[start:end], which the
\* caller keeps; seen is what the slice showed when it was returned
heapValues(h) ==
    LET start == Max(0, h.highWater - h.numValues)
        end   == Min(h.highWater, start + h.numValues)
        sl    == [arr |-> h.values.arr, off |-> h.values.off + start,
                  len |-> end - start, cap |-> h.values.cap - start]
    IN  [h EXCEPT !.held = Append(@, [slice |-> sl, seen |-> ReadSlice(h, sl)])]

\* the capacities requested for the series whose slices are followed
HeapCapacities == {0, 1, 2}

\* the samples pushed while slices are held
HeapSamples == {0, 1}

\* ----------------------------------------------------------------- layout
\* a []container.Option is a widget's own options, a single SplitHorizontal
\* of two option lists, or nil; a call may also end in a run-time panic
\* (index out of range) or in unbounded recursion (stack overflow)
Nil == [kind |-> "nil"]

Panic == [kind |-> "panic"]

StackOverflow == [kind |-> "stack overflow"]

Widget(id) == [kind |-> "widget", id |-> id]

Aborted(t) == t = Panic \/ t = StackOverflow

\* widgets[i] of the Go slice
Index(ws, i) == IF i >= 0 /\ i < Len(ws) THEN ws[i + 1] ELSE Panic

\* container.SplitHorizontal(container.Top(a...), container.Bottom(b...));
\* the operands are evaluated first, so an aborted operand aborts the call
SplitHorizontal(a, b) ==
    IF Aborted(a) THEN a
    ELSE IF Aborted(b) THEN b
    ELSE [kind |-> "split", top |-> a, bottom |-> b]

NoError == "nil"

NoWidgetsError == "No widgets initialized, failing."

RECURSIVE nextPower2From(_, _)
nextPower2From(n, i) == IF n < i THEN nextPower2From(n * 2, i) ELSE n

nextPower2(i) == nextPower2From(1, i)

\* layoutR that tests rangeB > len(widgets) for the single-widget range
RECURSIVE layoutROffByOne(_, _, _)
layoutROffByOne(ws, rangeA, rangeB) ==
    IF rangeA + 1 = rangeB
    THEN IF rangeB > Len(ws)
         THEN Index(ws, rangeA)
         ELSE SplitHorizontal(Index(ws, rangeA), Index(ws, rangeB))
    ELSE IF rangeB <= rangeA
    THEN StackOverflow
    ELSE LET rangeAb == (rangeB - rangeA + 1) \div 2 + rangeA - 1
             rangeBa == rangeAb + 1
             widgetA == layoutROffByOne(ws, rangeA, rangeAb)
         IN  IF Aborted(widgetA) THEN widgetA
             ELSE IF rangeBa >= Len(ws) THEN widgetA
             ELSE SplitHorizontal(widgetA, layoutROffByOne(ws, rangeBa, rangeB))

\* layoutR that peels one widget off the range per split
RECURSIVE layoutRChain(_, _, _)
layoutRChain(ws, rangeA, rangeB) ==
    IF rangeA + 1 >= Len(ws) \/ rangeB <= rangeA
    THEN Index(ws, rangeA)
    ELSE SplitHorizontal(Index(ws, rangeA), layoutRChain(ws, rangeA + 1, rangeB))

\* layoutR that puts the second half of the range on top
RECURSIVE layoutRSwapped(_, _, _)
layoutRSwapped(ws, rangeA, rangeB) ==
    IF rangeA + 1 = rangeB
    THEN IF rangeB >= Len(ws)
         THEN Index(ws, rangeA)
         ELSE SplitHorizontal(Index(ws, rangeA), Index(ws, rangeB))
    ELSE IF rangeB <= rangeA
    THEN StackOverflow
    ELSE LET rangeAb == (rangeB - rangeA + 1) \div 2 + rangeA - 1
             rangeBa == rangeAb + 1
             widgetA == layoutRSwapped(ws, rangeA, rangeAb)
         IN  IF Aborted(widgetA) THEN widgetA
             ELSE IF rangeBa >= Len(ws) THEN widgetA
             ELSE SplitHorizontal(layoutRSwapped(ws, rangeBa, rangeB), widgetA)

\* a range of fewer than two slots never reaches the two-slot base case:
\* the left sub-range is then empty and the recursion does not end
RECURSIVE layoutR(_, _, _)
layoutR(ws, rangeA, rangeB) ==
    IF rangeA + 1 = rangeB
    THEN IF rangeB >= Len(ws)
         THEN Index(ws, rangeA)
         ELSE SplitHorizontal(Index(ws, rangeA), Index(ws, rangeB))
    ELSE IF rangeB <= rangeA
    THEN StackOverflow
    ELSE LET rangeAb == (rangeB - rangeA + 1) \div 2 + rangeA - 1
             rangeBa == rangeAb + 1
             widgetA == layoutR(ws, rangeA, rangeAb)
         IN  IF Aborted(widgetA) THEN widgetA
             ELSE IF rangeBa >= Len(ws) THEN widgetA
             ELSE SplitHorizontal(widgetA, layoutR(ws, rangeBa, rangeB))

\* the invocations layoutR(ws, rangeA, rangeB) makes, itself first, in call
\* order, the indices of ws it reads, and the ranges of the invocations
\* that called container.SplitHorizontal themselves
RECURSIVE layoutRTrace(_, _, _)
layoutRTrace(ws, rangeA, rangeB) ==
    IF rangeA + 1 = rangeB
    THEN [calls  |-> << <<rangeA, rangeB>> >>,
          reads  |-> IF rangeB >= Len(ws) THEN {rangeA} ELSE {rangeA, rangeB},
          splits |-> IF rangeB >= Len(ws) THEN {} ELSE {<<rangeA, rangeB>>}]
    ELSE IF rangeB <= rangeA
    THEN [calls |-> << <<rangeA, rangeB>> >>, reads |-> {}, splits |-> {}]
    ELSE LET rangeAb == (rangeB - rangeA + 1) \div 2 + rangeA - 1
             rangeBa == rangeAb + 1
             left    == layoutRTrace(ws, rangeA, rangeAb)
         IN  IF Aborted(layoutR(ws, rangeA, rangeAb)) \/ rangeBa >= Len(ws)
             THEN [calls  |-> << <<rangeA, rangeB>> >> \o left.calls,
                   reads  |-> left.reads,
                   splits |-> left.splits]
             ELSE LET right == layoutRTrace(ws, rangeBa, rangeB)
                  IN  [calls  |-> << <<rangeA, rangeB>> >> \o left.calls \o right.calls,
                       reads  |-> left.reads \cup right.reads,
                       splits |-> {<<rangeA, rangeB>>} \cup left.splits \cup right.splits]

NoTrace == [calls |-> <<>>, reads |-> {}, splits |-> {}]

layoutTrace(ws) ==
    IF Len(ws) = 0
    THEN NoTrace
    ELSE IF Len(ws) = 1
    THEN [calls |-> <<>>, reads |-> {0}, splits |-> {}]
    ELSE layoutRTrace(ws, 0, nextPower2(Len(ws)) - 1)

\* layout without the test for an empty list
layoutNoEmptyTest(ws) ==
    IF Len(ws) = 1
    THEN [tree |-> Index(ws, 0), err |-> NoError]
    ELSE [tree |-> layoutR(ws, 0, nextPower2(Len(ws)) - 1), err |-> NoError]

\* layout without the test for a single widget
layoutNoSingleTest(ws) ==
    IF Len(ws) = 0
    THEN [tree |-> Nil, err |-> NoWidgetsError]
    ELSE [tree |-> layoutR(ws, 0, nextPower2(Len(ws)) - 1), err |-> NoError]

\* layout that does not round the range up to a power of two
layoutNoRoundUp(ws) ==
    IF Len(ws) = 0
    THEN [tree |-> Nil, err |-> NoWidgetsError]
    ELSE IF Len(ws) = 1
    THEN [tree |-> Index(ws, 0), err |-> NoError]
    ELSE [tree |-> layoutR(ws, 0, Len(ws) - 1), err |-> NoError]

layout(ws) ==
    IF Len(ws) = 0
    THEN [tree |-> Nil, err |-> NoWidgetsError]
    ELSE IF Len(ws) = 1
    THEN [tree |-> Index(ws, 0), err |-> NoError]
    ELSE [tree |-> layoutR(ws, 0, nextPower2(Len(ws)) - 1), err |-> NoError]

\* ------------------------------------------------------- layout, tile mode
\* The layoutR that takes the tile and orientation flags is not among the
\* sources; it is modelled from the design text: the recursion of layoutR
\* above, where a split built for a range of 2^k slots uses the configured
\* orientation, flipped when tile mode is on and k is odd.
RECURSIVE Log2(_)
Log2(n) == IF n <= 1 THEN 0 ELSE 1 + Log2(n \div 2)

Flip(o) == IF o = "SplitHorizontal" THEN "SplitVertical" ELSE "SplitHorizontal"

\* orientation that flips on even exponents instead of odd ones
OrientationEvenFlips(cfg, k) ==
    IF cfg.tileMode /\ k % 2 = 0 THEN Flip(cfg.splitOrientation) ELSE cfg.splitOrientation

Orientation(cfg, k) ==
    IF cfg.tileMode /\ k % 2 = 1 THEN Flip(cfg.splitOrientation) ELSE cfg.splitOrientation

SplitTile(cfg, k, a, b) ==
    IF Aborted(a) THEN a
    ELSE IF Aborted(b) THEN b
    ELSE [kind |-> "split", orient |-> Orientation(cfg, k), exp |-> k,
          top |-> a, bottom |-> b]

RECURSIVE layoutRTile(_, _, _, _)
layoutRTile(cfg, ws, rangeA, rangeB) ==
    LET k == Log2(rangeB - rangeA + 1)
    IN  IF rangeA + 1 = rangeB
        THEN IF rangeB >= Len(ws)
             THEN Index(ws, rangeA)
             ELSE SplitTile(cfg, k, Index(ws, rangeA), Index(ws, rangeB))
        ELSE IF rangeB <= rangeA
        THEN StackOverflow
        ELSE LET rangeAb == (rangeB - rangeA + 1) \div 2 + rangeA - 1
                 rangeBa == rangeAb + 1
                 widgetA == layoutRTile(cfg, ws, rangeA, rangeAb)
             IN  IF Aborted(widgetA) THEN widgetA
                 ELSE IF rangeBa >= Len(ws) THEN widgetA
                 ELSE SplitTile(cfg, k, widgetA, layoutRTile(cfg, ws, rangeBa, rangeB))

layoutTile(cfg, ws) ==
    IF Len(ws) = 0 THEN Nil
    ELSE IF Len(ws) = 1 THEN Index(ws, 0)
    ELSE layoutRTile(cfg, ws, 0, nextPower2(Len(ws)) - 1)

\* ----------------------------------------------------------- widget cache
\* the identifiers explored: two charts and the coupled top pair
CacheIds == {WidgetCPULoad, WidgetNetworkIO, WidgetTopCPU, WidgetTopMem}

TopIds == {WidgetTopCPU, WidgetTopMem}

\* the constructor getWidgets calls for an identifier
Constructor(ref) ==
    CASE ref = WidgetCPULoad   -> "newLoadChart"
      [] ref = WidgetCPUPerc   -> "newCpuChart"
      [] ref = WidgetNetworkIO -> "newNetChart"
      [] ref = WidgetDiskIOPS  -> "newDiskIOPSChart"
      [] ref = WidgetDiskIO    -> "newDiskIOChart"
      [] ref = WidgetTopCPU    -> "newTopBoxes"
      [] ref = WidgetTopMem    -> "newTopBoxes"

Constructors == {Constructor(ref) : ref \in CacheIds}

ConstructionError == "construction error"

\* the options returned by the n-th successful run of the constructor for ref
Handle(ref, n) == [kind |-> "widget", id |-> ref, gen |-> n]

\* cache[ref] = h
Put(cache, ref, h) ==
    [x \in DOMAIN cache \cup {ref} |-> IF x = ref THEN h ELSE cache[x]]

newWidgetCache == [x \in {} |-> Nil]

\* a successful constructor has started its sampler with `go periodic`
Started(st, ref) ==
    [st.started EXCEPT ![Constructor(ref)] = @ + 1]

\* one iteration of the loop of getWidgets that never takes the cached widget
resolveNoHit(st, ref, fails) ==
    IF ref \in TopIds
    THEN LET ok      == ref \notin fails
             n       == st.started["newTopBoxes"] + 1
             sibling == IF ref = WidgetTopCPU THEN WidgetTopMem ELSE WidgetTopCPU
             cache1  == Put(st.cache, sibling, IF ok THEN Handle(sibling, n) ELSE Nil)
         IN  IF ~ok
             THEN [st EXCEPT !.cache = cache1, !.widgets = <<>>, !.err = ConstructionError]
             ELSE [st EXCEPT !.cache = Put(cache1, ref, Handle(ref, n)),
                             !.started = Started(st, ref),
                             !.built = [x \in DOMAIN @ |-> IF x \in TopIds THEN @[x] + 1 ELSE @[x]],
                             !.widgets = Append(@, Handle(ref, n))]
    ELSE LET n == st.started[Constructor(ref)] + 1
         IN  IF ref \in fails
             THEN [st EXCEPT !.widgets = <<>>, !.err = ConstructionError]
             ELSE [st EXCEPT !.cache = Put(@, ref, Handle(ref, n)),
                             !.started = Started(st, ref),
                             !.built[ref] = @ + 1,
                             !.widgets = Append(@, Handle(ref, n))]

\* one iteration of the loop of getWidgets that does not cache the sibling
\* of the top pair
resolveNoSibling(st, ref, fails) ==
    IF ref \in DOMAIN st.cache
    THEN [st EXCEPT !.widgets = Append(@, st.cache[ref]), !.hits = @ + 1]
    ELSE LET n == st.started[Constructor(ref)] + 1
         IN  IF ref \in fails
             THEN [st EXCEPT !.widgets = <<>>, !.err = ConstructionError]
             ELSE [st EXCEPT !.cache = Put(@, ref, Handle(ref, n)),
                             !.started = Started(st, ref),
                             !.built[ref] = @ + 1,
                             !.widgets = Append(@, Handle(ref, n))]

\* one iteration of the loop of getWidgets, for the identifier ref; the
\* constructors of the identifiers in fails return an error.  A constructor
\* returns its error before it reaches `go periodic`, and returns non-nil
\* options otherwise, so the nil-widget panic is never taken.
resolve(st, ref, fails) ==
    IF ref \in DOMAIN st.cache
    THEN [st EXCEPT !.widgets = Append(@, st.cache[ref]), !.hits = @ + 1]
    ELSE IF ref \in TopIds
    THEN LET ok      == ref \notin fails
             n       == st.started["newTopBoxes"] + 1
             sibling == IF ref = WidgetTopCPU THEN WidgetTopMem ELSE WidgetTopCPU
             \* the sibling is stored before err is looked at
             cache1  == Put(st.cache, sibling, IF ok THEN Handle(sibling, n) ELSE Nil)
         IN  IF ~ok
             THEN [st EXCEPT !.cache = cache1, !.widgets = <<>>, !.err = ConstructionError]
             ELSE [st EXCEPT !.cache = Put(cache1, ref, Handle(ref, n)),
                             !.started = Started(st, ref),
                             !.built = [x \in DOMAIN @ |-> IF x \in TopIds THEN @[x] + 1 ELSE @[x]],
                             !.widgets = Append(@, Handle(ref, n))]
    ELSE LET n == st.started[Constructor(ref)] + 1
         IN  IF ref \in fails
             THEN [st EXCEPT !.widgets = <<>>, !.err = ConstructionError]
             ELSE [st EXCEPT !.cache = Put(@, ref, Handle(ref, n)),
                             !.started = Started(st, ref),
                             !.built[ref] = @ + 1,
                             !.widgets = Append(@, Handle(ref, n))]

RECURSIVE getWidgetsFrom(_, _, _, _)
getWidgetsFrom(st, cfg, i, fails) ==
    IF i > Len(cfg)
    THEN st
    ELSE LET st2 == resolve(st, cfg[i], fails)
         IN  IF st2.err # NoError THEN st2
             ELSE getWidgetsFrom(st2, cfg, i + 1, fails)

\* getWidgets that drops the cached widgets the configured list no longer
\* names
getWidgetsEvicting(st, cfg, fails) ==
    LET r == getWidgetsFrom([st EXCEPT !.config = cfg, !.widgets = <<>>,
                                       !.err = NoError, !.hits = 0],
                            cfg, 1, fails)
    IN  [r EXCEPT !.cache =
            [x \in {y \in DOMAIN @ : \E i \in 1..Len(cfg) : cfg[i] = y} |-> @[x]]]

getWidgets(st, cfg, fails) ==
    getWidgetsFrom([st EXCEPT !.config = cfg, !.widgets = <<>>,
                              !.err = NoError, !.hits = 0],
                   cfg, 1, fails)

\* ------------------------------------------------------- counter samplers
KiB == 1024

\* config.SampleInterval in milliseconds: the default, one that does not
\* divide a second and one above a second
SampleIntervals == {300, 500, 2000}

\* cumulative byte counters read from the network interfaces
ByteReadings == {0, 512, 1024}

\* cumulative operation counters read from the disks
CountReadings == 0..2

Devices == <<"lo0", "en0">>

\* the keys of the map disk.IOCounters returns
Disks == {"disk0", "disk1"}

\* the counters of one disk as the Disk IO sampler reads them
DiskStats ==
    [ReadCount : 0..1, WriteCount : 0..1, ReadBytes : {0, 1024}, WriteBytes : {0, 1024}]

\* uint64(time.Second/config.SampleInterval), both in milliseconds
PerSecond(interval) == 1000 \div interval

\* bytes * uint64(time.Second/config.SampleInterval) / 1024
Scale(bytes, interval) == (bytes * PerSecond(interval)) \div KiB

\* the zero value of net.IOCountersStat
NoStat == [Name |-> "", BytesSent |-> 0, BytesRecv |-> 0]

RECURSIVE findNetworkDeviceFrom(_, _, _, _)
findNetworkDeviceFrom(iostat, i, maxBytesReceived, stat) ==
    IF i > Len(iostat)
    THEN [panic |-> maxBytesReceived = 0, stat |-> stat]
    ELSE IF iostat[i].BytesRecv > maxBytesReceived
         THEN findNetworkDeviceFrom(iostat, i + 1, iostat[i].BytesRecv, iostat[i])
         ELSE findNetworkDeviceFrom(iostat, i + 1, maxBytesReceived, stat)

findNetworkDevice(iostat) == findNetworkDeviceFrom(iostat, 1, 0, NoStat)

\* uint64 a - b.  The record stands for the number wraps * 2^64 + rest: the
\* difference itself when a >= b, and the wrapped value 2^64 - (b - a) when
\* a < b
Sub64(a, b) == [wraps |-> IF a < b THEN 1 ELSE 0, rest |-> a - b]

\* float64(x) * factor for a uint64 x; the rounding of float64 is left out
Float64Times(x, factor) == [wraps |-> x.wraps * factor, rest |-> x.rest * factor]

\* if last != 0 { series.AddValue(float64(new - last) * factor) }
\* A pushed value is recorded with the two readings it was computed from,
\* the device the new reading came from (of) and the device the previous
\* reading came from (against).
pushDelta(store, last, lastOf, new, of, factor) ==
    IF last # 0
    THEN Append(store, [v |-> Float64Times(Sub64(new, last), factor), new |-> new, last |-> last,
                        of |-> of, against |-> lastOf])
    ELSE store

\* a device switch that keeps the previous readings of the old device
handOffKeepsLast(st, iostat) ==
    [st EXCEPT !.sent = <<>>, !.recv = <<>>,
               !.device = iostat.Name, !.from = st.device,
               !.ticks = 0, !.handoff = TRUE]

\* a device switch that keeps the two series of the old device
handOffKeepsSeries(st, iostat) ==
    [st EXCEPT !.lastSent = 0, !.lastRecv = 0,
               !.sentOf = "", !.recvOf = "",
               !.device = iostat.Name, !.from = st.device,
               !.ticks = 0, !.handoff = TRUE]

\* the body of `if iostat.Name != device`; from remembers the device that
\* was tracked before
handOff(st, iostat) ==
    [st EXCEPT !.sent = <<>>, !.recv = <<>>,
               !.lastSent = 0, !.lastRecv = 0,
               !.sentOf = "", !.recvOf = "",
               !.device = iostat.Name, !.from = st.device,
               !.ticks = 0, !.handoff = TRUE]

\* the tick body of newNetChart after a successful net.IOCounters call;
\* readings keeps, tick by tick, the device findNetworkDevice chose and the
\* newSent and newRecv computed from it
netSample(st, iostats) ==
    LET found == findNetworkDevice(iostats)
        iostat == found.stat
    IN  IF found.panic
        THEN [st EXCEPT !.status = "panic", !.total = @ + 1]
        ELSE LET st1 == IF iostat.Name # st.device
                        THEN handOff(st, iostat)
                        ELSE [st EXCEPT !.handoff = FALSE]
                 newSent == Scale(iostat.BytesSent, st.interval)
                 newRecv == Scale(iostat.BytesRecv, st.interval)
             IN  [st1 EXCEPT
                    !.sent = pushDelta(@, st1.lastSent, st1.sentOf, newSent, iostat.Name, 1),
                    !.lastSent = newSent,
                    !.sentOf = iostat.Name,
                    !.recv = pushDelta(@, st1.lastRecv, st1.recvOf, newRecv, iostat.Name, 1),
                    !.lastRecv = newRecv,
                    !.recvOf = iostat.Name,
                    !.iostat = iostat,
                    !.readings = Append(@, [name |-> iostat.Name, sent |-> newSent,
                                            recv |-> newRecv]),
                    !.ticks = @ + 1,
                    !.total = @ + 1]

\* the tick body of newDiskIOPSChart after a successful disk.IOCounters
\* call; iostat is the entry the `range` over the map happened to visit
\* last, and lastOf is the disk the previous readings came from
diskSample(st, iostat) ==
    [st EXCEPT
       !.disk = [write     |-> pushDelta(@.write, @.lastWrite, @.lastOf, iostat.WriteCount,
                                         iostat.Name, PerSecond(st.interval)),
                 lastWrite |-> iostat.WriteCount,
                 read      |-> pushDelta(@.read, @.lastRead, @.lastOf, iostat.ReadCount,
                                         iostat.Name, PerSecond(st.interval)),
                 lastRead  |-> iostat.ReadCount,
                 lastOf    |-> iostat.Name,
                 ticks     |-> @.ticks + 1],
       !.total = @ + 1]

RECURSIVE SumOver(_, _)
SumOver(f, S) ==
    IF S = {} THEN 0
    ELSE LET x == CHOOSE y \in S : TRUE IN f[x] + SumOver(f, S \ {x})

\* the tick body of newDiskIOChart after a successful disk.IOCounters call;
\* iostats maps every disk to its counters.  bytesRead and bytesWritten keep
\* what the byte counters of all disks gave, in KiB per second, on the tick
\* before; every pushed value is recorded with the delta they give now.
diskIOSample(st, iostats) ==
    LET newRead    == SumOver([d \in Disks |-> iostats[d].ReadCount], Disks)
        newWrite   == SumOver([d \in Disks |-> iostats[d].WriteCount], Disks)
        readBytes  == Scale(SumOver([d \in Disks |-> iostats[d].ReadBytes], Disks),
                            st.interval)
        writeBytes == Scale(SumOver([d \in Disks |-> iostats[d].WriteBytes], Disks),
                            st.interval)
        io         == st.diskio
    IN  [st EXCEPT
           !.diskio = [write        |-> IF io.lastWrite # 0
                                        THEN Append(io.write,
                                                 [v |-> Float64Times(Sub64(newWrite, io.lastWrite), 1),
                                                  bytes |-> writeBytes - io.bytesWritten])
                                        ELSE io.write,
                       lastWrite    |-> newWrite,
                       read         |-> IF io.lastRead # 0
                                        THEN Append(io.read,
                                                 [v |-> Float64Times(Sub64(newRead, io.lastRead), 1),
                                                  bytes |-> readBytes - io.bytesRead])
                                        ELSE io.read,
                       lastRead     |-> newRead,
                       bytesRead    |-> readBytes,
                       bytesWritten |-> writeBytes,
                       ticks        |-> io.ticks + 1],
           !.total = @ + 1]

\* the state of the samplers of newNetChart, newDiskIOPSChart and
\* newDiskIOChart when their goroutines start
newCounterSamplers(interval) ==
    [interval |-> interval,
     status   |-> "running",
     total    |-> 0,
     device   |-> "",
     sent     |-> <<>>,
     recv     |-> <<>>,
     lastSent |-> 0,
     lastRecv |-> 0,
     sentOf   |-> "",
     recvOf   |-> "",
     iostat   |-> NoStat,
     readings |-> <<>>,
     ticks    |-> 0,
     handoff  |-> FALSE,
     from     |-> "",
     disk     |-> [write |-> <<>>, read |-> <<>>, lastWrite |-> 0, lastRead |-> 0,
                   lastOf |-> "", ticks |-> 0],
     diskio   |-> [write |-> <<>>, read |-> <<>>, lastWrite |-> 0, lastRead |-> 0,
                   bytesRead |-> 0, bytesWritten |-> 0, ticks |-> 0]]

\* ---------------------------------------------------------------- periodic
\* the goroutines running periodic, named by the constructor that starts them
Samplers == {"newLoadChart", "newTopBoxes"}

\* the goroutines started by `go periodic(...)`, each with its own ticker,
\* waiting in their select; tick[s] is the one-element buffer of ticker.C;
\* phase[s] flips when a tick body of s returns nil; afterCancel[s] counts
\* (up to 2) the tick bodies s started after cancel(); failed[s] counts (up
\* to 2) the tick bodies of s that returned an error; inFn[s] counts (up to
\* 2) the invocations of the closure of s that are in flight, the only code
\* that touches the BoundedSeries the constructor of s created; cause is the
\* error the process died of
newSched ==
    [pc          |-> [s \in Samplers |-> "select"],
     inFn        |-> [s \in Samplers |-> 0],
     tick        |-> [s \in Samplers |-> FALSE],
     phase       |-> [s \in Samplers |-> 0],
     afterCancel |-> [s \in Samplers |-> 0],
     failed      |-> [s \in Samplers |-> 0],
     cancelled   |-> FALSE,
     crashed     |-> FALSE,
     cause       |-> NoError,
     mainDone    |-> FALSE,
     phaseAtHang |-> Nil]

\* the process runs until a goroutine panics or main returns
Alive(st) == ~st.crashed /\ ~st.mainDone

\* the runtime timer of s sends on ticker.C; a tick that finds the buffer
\* full is dropped
tickerFire(st, s) == [st EXCEPT !.tick[s] = TRUE]

\* a sampler that takes a tick only while no other sampler is in its body
canStartBodyOneAtATime(st, s) ==
    /\ st.pc[s] = "select" /\ st.tick[s]
    /\ \A t \in Samplers \ {s} : st.pc[t] \notin {"body", "hung"}

\* `case <-ticker.C` is ready: the sampler's own ticker has a tick buffered
canStartBody(st, s) == st.pc[s] = "select" /\ st.tick[s]

\* a sampler that runs every tick body in a goroutine of its own
startBodyAsync(st, s) ==
    [st EXCEPT !.tick[s] = FALSE,
               !.inFn[s] = Min(@ + 1, 2),
               !.afterCancel[s] = IF st.cancelled THEN Min(@ + 1, 2) ELSE @]

\* select takes `case <-ticker.C` and calls fn()
startBody(st, s) ==
    [st EXCEPT !.pc[s] = "body", !.tick[s] = FALSE,
               !.inFn[s] = Min(@ + 1, 2),
               !.afterCancel[s] = IF st.cancelled THEN Min(@ + 1, 2) ELSE @]

\* `case <-ctx.Done()` is ready
canReturn(st, s) == st.pc[s] = "select" /\ st.cancelled

\* select takes `case <-ctx.Done()`: return, and the deferred ticker.Stop()
exitOnDone(st, s) == [st EXCEPT !.pc[s] = "exited", !.tick[s] = FALSE]

\* fn() returned nil: back to the select
bodyDone(st, s) ==
    [st EXCEPT !.pc[s] = "select", !.phase[s] = 1 - @, !.inFn[s] = @ - 1]

\* a sampler that goes back to its select after an error
onErrorRetry(st, s) ==
    [st EXCEPT !.failed[s] = Min(@ + 1, 2), !.pc[s] = "select"]

\* fn() returned an error: panic(err) in a goroutine ends the process
onError(st, s) ==
    [st EXCEPT !.failed[s] = Min(@ + 1, 2), !.crashed = TRUE]

ContextCanceled == "context canceled"

\* the metric call bound to ctx returned ctx.Err() because the context is
\* cancelled; fn() returns it and periodic panics as for any other error
onContextError(st, s) == [onError(st, s) EXCEPT !.cause = ContextCanceled]

\* the metric-source call inside fn() never returns
bodyHang(st, s) ==
    [st EXCEPT !.pc[s] = "hung",
               !.phaseAtHang = IF @ = Nil THEN st.phase ELSE @]

\* ------------------------------------------------------------ configuration
\* time.Duration(n) * time.Millisecond; durations are counted in
\* microseconds here, which keeps them within 32-bit integers
Milliseconds(n) == n * 1000

\* time.Duration(n) * time.Second
Seconds(n) == n * 1000000

DefaultConfig ==
    [Widgets           |-> <<WidgetCPULoad, WidgetCPUPerc, WidgetNetworkIO, WidgetDiskIOPS>>,
     RedrawInterval    |-> 0,
     SampleInterval    |-> 0,
     ChartDuration     |-> 0,
     NumSamples        |-> 0,
     SmoothingSamples  |-> 0,
     SelectWidgetsMode |-> FALSE,
     TopRowsShown      |-> 25]

\* selectWidget that appends to the default list
selectWidgetKeepsDefault(this, widget) ==
    [this EXCEPT !.SelectWidgetsMode = TRUE, !.Widgets = Append(@, widget)]

selectWidget(this, widget) ==
    LET first == IF ~this.SelectWidgetsMode
                 THEN [this EXCEPT !.SelectWidgetsMode = TRUE, !.Widgets = <<>>]
                 ELSE this
    IN  [first EXCEPT !.Widgets = Append(@, widget)]

\* the widget flags of cli in the order ApplyFlags tests them
WidgetFlags ==
    << <<"CpuLoad", WidgetCPULoad>>, <<"CpuPercent", WidgetCPUPerc>>,
       <<"DiskIops", WidgetDiskIOPS>>, <<"DiskIo", WidgetDiskIO>>,
       <<"NetworkIo", WidgetNetworkIO>>, <<"TopCpu", WidgetTopCPU>>,
       <<"TopMemory", WidgetTopMem>> >>

\* the `if cli.X { this.selectWidget(W) }` statements from the i-th on
RECURSIVE applyWidgetFlags(_, _, _)
applyWidgetFlags(this, flags, i) ==
    IF i > Len(WidgetFlags)
    THEN this
    ELSE applyWidgetFlags(IF flags[WidgetFlags[i][1]]
                          THEN selectWidget(this, WidgetFlags[i][2])
                          ELSE this,
                          flags, i + 1)

RedrawError == "redraw interval"

SampleError == "sample interval"

\* ApplyFlags that raises too small intervals to the smallest accepted ones
ApplyFlagsClamped(this, flags) ==
    [config |-> applyWidgetFlags(
                    [this EXCEPT
                       !.RedrawInterval = Milliseconds(Max(flags.RedrawInterval, 50)),
                       !.SampleInterval = Milliseconds(Max(flags.SampleInterval, 20)),
                       !.ChartDuration = Seconds(flags.ChartDuration),
                       !.SmoothingSamples = flags.Smooth],
                    flags, 1),
     err    |-> NoError]

\* config.ApplyFlags() with the parsed flags; the config it leaves and the
\* error it returns
ApplyFlags(this, flags) ==
    IF flags.RedrawInterval < 50
    THEN [config |-> this, err |-> RedrawError]
    ELSE LET c1 == [this EXCEPT !.RedrawInterval = Milliseconds(flags.RedrawInterval)]
         IN  IF flags.SampleInterval < 20
             THEN [config |-> c1, err |-> SampleError]
             ELSE [config |-> applyWidgetFlags(
                                  [c1 EXCEPT
                                     !.SampleInterval = Milliseconds(flags.SampleInterval),
                                     !.ChartDuration = Seconds(flags.ChartDuration),
                                     !.SmoothingSamples = flags.Smooth],
                                  flags, 1),
                   err    |-> NoError]

\* int(math.Ceil(float64(ChartDuration) / float64(SampleInterval)))
Finalize(this) ==
    [this EXCEPT !.NumSamples =
        (this.ChartDuration + this.SampleInterval - 1) \div this.SampleInterval]

\* the constructor newWidgets calls for an identifier
WidgetConstructor(ref) ==
    CASE ref = WidgetCPULoad   -> "newLoadChart"
      [] ref = WidgetCPUPerc   -> "newCpuChart"
      [] ref = WidgetNetworkIO -> "newNetChart"
      [] ref = WidgetDiskIOPS  -> "newDiskIOPSChart"
      [] ref = WidgetDiskIO    -> "newDiskIOChart"
      [] ref = WidgetTopCPU    -> "newTopBoxes"
      [] ref = WidgetTopMem    -> "newTopBoxes"

\* the samplers a successful newWidgets has started with `go periodic`
newWidgetsStarted(ws) == {WidgetConstructor(ws[i]) : i \in 1..Len(ws)}

\* the values kong.Parse may leave in cli
CliFlags ==
    [Help : BOOLEAN,
     RedrawInterval : {49, 50, 500},
     SampleInterval : {19, 20, 500},
     ChartDuration : {120},
     Smooth : {4},
     CpuLoad : BOOLEAN, CpuPercent : BOOLEAN, DiskIops : BOOLEAN, DiskIo : BOOLEAN,
     NetworkIo : BOOLEAN, TopCpu : BOOLEAN, TopMemory : BOOLEAN]

NoFlags == [x \in {} |-> FALSE]

\* main before kong.Parse
newApp ==
    [pc |-> "Parse", cli |-> NoFlags, config |-> DefaultConfig, err |-> NoError,
     started |-> {}, widgets |-> <<>>]

\* ----------------------------------------------------------- top processes
\* the process lists GetPsProcesses may return: the i-th ps row has pid i
PsOutputs ==
    UNION {[1..n -> [CpuPerc : 0..MaxPerc, MemPerc : 0..MaxPerc]] : n \in 0..MaxProcs}

PsProcesses(rows) ==
    [i \in 1..Len(rows) |->
        [Pid |-> i, CpuPerc |-> rows[i].CpuPerc, MemPerc |-> rows[i].MemPerc]]

Orders(s) ==
    {[i \in 1..Len(s) |-> s[f[i]]] :
        f \in {g \in [1..Len(s) -> 1..Len(s)] : \A i, j \in 1..Len(s) : g[i] = g[j] => i = j}}

\* the orders sort.Slice(procs, func(i, j) { return procs[i].key > procs[j].key })
\* may leave procs in; the sort is not stable, so equal keys come in any order
sortSlice(procs, key) ==
    {q \in Orders(procs) : \A i \in 1..(Len(q) - 1) : q[i][key] >= q[i + 1][key]}

\* topProcesses whose CPU list is procs[:n], a slice of the array that is
\* sorted again
topProcessesAliased(rows, byCpu, byMem) ==
    LET n == Min(rows, Len(byCpu))
    IN  [procsByCpu |-> SubSeq(byMem, 1, n), procsByMem |-> SubSeq(byMem, 1, n)]

\* topProcesses after GetPsProcesses: byCpu is procs as the first sort left
\* it and byMem as the second did; each list is a new array that the first
\* min(TopRowsShown, len(procs)) pointers are copied into
topProcesses(rows, byCpu, byMem) ==
    LET n == Min(rows, Len(byCpu))
    IN  [procsByCpu |-> SubSeq(byCpu, 1, n), procsByMem |-> SubSeq(byMem, 1, n)]

\* config.TopRowsShown: the value DefaultConfig sets and one below MaxProcs
TopRows == {2, DefaultConfig.TopRowsShown}

newTop(rows) ==
    [pc |-> "GetPsProcesses", TopRowsShown |-> rows, procs |-> <<>>,
     procsByCpu |-> <<>>, procsByMem |-> <<>>]

\* ---------------------------------------------------------------- actions
SeriesInit ==
    /\ pushed = <<>>
    /\ lastCall = "NewBoundedSeries"
    /\ window = 0
    /\ ret = <<>>

LayoutInit ==
    /\ widgets = <<>>
    /\ pc = "newWidgets"
    /\ tree = Nil
    /\ err = NoError
    /\ trace = NoTrace

TileIdle ==
    tile = [tileMode |-> FALSE, splitOrientation |-> "SplitHorizontal", tree |-> Nil]

CacheIdle ==
    wcache = [cache   |-> newWidgetCache,
              started |-> [c \in Constructors |-> 0],
              built   |-> [ref \in CacheIds |-> 0],
              config  |-> <<>>,
              widgets |-> <<>>,
              err     |-> NoError,
              hits    |-> 0]

NetIdle == net = newCounterSamplers(500)

AppIdle == app = newApp

HeapIdle == heap = newHeap(0)

TopIdle == top = newTop(DefaultConfig.TopRowsShown)

SchedIdle == sched = newSched

Init ==
    /\ \E n \in 0..MaxN : series = NewBoundedSeries(n)
    /\ SeriesInit
    /\ LayoutInit
    /\ TileIdle /\ CacheIdle /\ NetIdle /\ SchedIdle /\ AppIdle /\ TopIdle /\ HeapIdle

DoAddValue ==
    /\ Len(pushed) < MaxPushes
    /\ \E v \in 0..MaxVal :
          /\ series' = AddValue(series, Real(v))
          /\ pushed' = Append(pushed, v)
    /\ lastCall' = "AddValue"
    /\ window' = 0
    /\ ret' = <<>>
    /\ UNCHANGED <<layoutVars, tile, wcache, net, sched, app, top, heap>>

DoValues ==
    /\ LET call == ValuesCall(series)
       IN  series' = call.this /\ ret' = call.ret
    /\ lastCall' = "Values"
    /\ window' = 0
    /\ UNCHANGED pushed
    /\ UNCHANGED <<layoutVars, tile, wcache, net, sched, app, top, heap>>

DoSmoothedValues ==
    /\ \E w \in (-1)..MaxWindow :
          LET call == SmoothedValuesCall(series, w)
          IN  /\ series' = call.this
              /\ ret' = call.ret
              /\ window' = w
    /\ lastCall' = "SmoothedValues"
    /\ UNCHANGED pushed
    /\ UNCHANGED <<layoutVars, tile, wcache, net, sched, app, top, heap>>

Next == DoAddValue \/ DoValues \/ DoSmoothedValues

Spec == Init /\ [][Next]_vars

\* one iteration of the loop of newWidgets: the next configured widget is
\* built and appended
AppendWidget ==
    /\ pc = "newWidgets"
    /\ Len(widgets) < MaxWidgets
    /\ \E id \in 0..MaxWidgetId : widgets' = Append(widgets, Widget(id))
    /\ UNCHANGED <<pc, tree, err, trace>>
    /\ UNCHANGED <<seriesVars, tile, wcache, net, sched, app, top, heap>>

\* newWidgets returns and main calls layout on its result
DoLayout ==
    /\ pc = "newWidgets"
    /\ LET r == layout(widgets)
       IN  tree' = r.tree /\ err' = r.err
    /\ trace' = layoutTrace(widgets)
    /\ pc' = "done"
    /\ UNCHANGED widgets
    /\ UNCHANGED <<seriesVars, tile, wcache, net, sched, app, top, heap>>

LayoutSpecInit ==
    /\ series = NewBoundedSeries(0)
    /\ SeriesInit
    /\ LayoutInit
    /\ TileIdle /\ CacheIdle /\ NetIdle /\ SchedIdle /\ AppIdle /\ TopIdle /\ HeapIdle

NextLayout == AppendWidget \/ DoLayout

SpecLayout == LayoutSpecInit /\ [][NextLayout]_vars

\* the widget list is complete and the layout is built with the tile flags
DoLayoutTile ==
    /\ pc = "newWidgets"
    /\ tile' = [tile EXCEPT !.tree = layoutTile(tile, widgets)]
    /\ pc' = "done"
    /\ UNCHANGED <<widgets, tree, err, trace>>
    /\ UNCHANGED <<seriesVars, wcache, net, sched, app, top, heap>>

TileSpecInit ==
    /\ series = NewBoundedSeries(0)
    /\ SeriesInit
    /\ LayoutInit
    /\ \E t \in BOOLEAN, o \in {"SplitHorizontal", "SplitVertical"} :
          tile = [tileMode |-> t, splitOrientation |-> o, tree |-> Nil]
    /\ CacheIdle /\ NetIdle /\ SchedIdle /\ AppIdle /\ TopIdle /\ HeapIdle

NextTile == AppendWidget \/ DoLayoutTile

SpecTile == TileSpecInit /\ [][NextTile]_vars

\* kong.Parse(&cli, ...)
MainParse ==
    /\ app.pc = "Parse"
    /\ \E flags \in CliFlags : app' = [app EXCEPT !.cli = flags, !.pc = "Help"]
    /\ UNCHANGED <<seriesVars, layoutVars, tile, wcache, net, sched, top, heap>>

\* if cli.Help { ...; os.Exit(0) }
MainHelp ==
    /\ app.pc = "Help"
    /\ app' = [app EXCEPT !.pc = IF app.cli.Help THEN "Exit(0)" ELSE "ApplyFlags"]
    /\ UNCHANGED <<seriesVars, layoutVars, tile, wcache, net, sched, top, heap>>

\* err = config.ApplyFlags(); if err != nil { ...; os.Exit(1) }
MainApplyFlags ==
    /\ app.pc = "ApplyFlags"
    /\ LET r == ApplyFlags(app.config, app.cli)
       IN  app' = [app EXCEPT !.config = r.config, !.err = r.err,
                              !.pc = IF r.err # NoError THEN "Exit(1)" ELSE "Finalize"]
    /\ UNCHANGED <<seriesVars, layoutVars, tile, wcache, net, sched, top, heap>>

\* config.Finalize()
MainFinalize ==
    /\ app.pc = "Finalize"
    /\ app' = [app EXCEPT !.config = Finalize(@), !.pc = "newWidgets"]
    /\ UNCHANGED <<seriesVars, layoutVars, tile, wcache, net, sched, top, heap>>

\* the terminal and the container are made and newWidgets builds the
\* configured widgets, whose constructors start the samplers
MainNewWidgets ==
    /\ app.pc = "newWidgets"
    /\ app' = [app EXCEPT !.widgets = app.config.Widgets,
                          !.started = newWidgetsStarted(app.config.Widgets),
                          !.pc = "Run"]
    /\ UNCHANGED <<seriesVars, layoutVars, tile, wcache, net, sched, top, heap>>

AppSpecInit ==
    /\ series = NewBoundedSeries(0)
    /\ SeriesInit
    /\ LayoutInit
    /\ TileIdle /\ CacheIdle /\ NetIdle /\ SchedIdle /\ AppIdle /\ TopIdle /\ HeapIdle

NextApp == MainParse \/ MainHelp \/ MainApplyFlags \/ MainFinalize \/ MainNewWidgets

SpecApp == AppSpecInit /\ [][NextApp]_vars

\* procs, err := GetPsProcesses(ctx); if err != nil { panic(err) }
TopGetPsProcesses ==
    /\ top.pc = "GetPsProcesses"
    /\ \/ top' = [top EXCEPT !.pc = "panic"]
       \/ \E rows \in PsOutputs :
             top' = [top EXCEPT !.procs = PsProcesses(rows), !.pc = "sort"]
    /\ UNCHANGED <<seriesVars, layoutVars, tile, wcache, net, sched, app, heap>>

\* the two sorts and the two copies
TopSort ==
    /\ top.pc = "sort"
    /\ \E byCpu \in sortSlice(top.procs, "CpuPerc") :
          \E byMem \in sortSlice(byCpu, "MemPerc") :
              LET r == topProcesses(top.TopRowsShown, byCpu, byMem)
              IN  top' = [top EXCEPT !.procsByCpu = r.procsByCpu,
                                     !.procsByMem = r.procsByMem,
                                     !.pc = "return"]
    /\ UNCHANGED <<seriesVars, layoutVars, tile, wcache, net, sched, app, heap>>

TopSpecInit ==
    /\ series = NewBoundedSeries(0)
    /\ SeriesInit
    /\ LayoutInit
    /\ TileIdle /\ CacheIdle /\ NetIdle /\ SchedIdle /\ AppIdle /\ HeapIdle
    /\ \E rows \in TopRows : top = newTop(rows)

NextTop == TopGetPsProcesses \/ TopSort

SpecTop == TopSpecInit /\ [][NextTop]_vars

\* this.AddValue(v) while callers hold slices returned earlier
HeapAddValue ==
    /\ heap.adds < MaxAddValues
    /\ \E v \in HeapSamples :
          \E newCap \in GrownCaps(heap.values.cap, heap.values.len + 1) :
              heap' = heapAddValue(heap, Real(v), newCap)
    /\ UNCHANGED <<seriesVars, layoutVars, tile, wcache, net, sched, app, top>>

\* a caller takes this.Values() and keeps the slice
HeapValues ==
    /\ Len(heap.held) < MaxHeld
    /\ heap' = heapValues(heap)
    /\ UNCHANGED <<seriesVars, layoutVars, tile, wcache, net, sched, app, top>>

HeapSpecInit ==
    /\ series = NewBoundedSeries(0)
    /\ SeriesInit
    /\ LayoutInit
    /\ TileIdle /\ CacheIdle /\ NetIdle /\ SchedIdle /\ AppIdle /\ TopIdle
    /\ \E n \in HeapCapacities : heap = newHeap(n)

NextHeap == HeapAddValue \/ HeapValues

SpecHeap == HeapSpecInit /\ [][NextHeap]_vars

\* the widget list is changed (a widget added, removed or re-added, in any
\* order) and getWidgets is called with the cache
ConfigLists == UNION {[1..n -> CacheIds] : n \in 0..MaxConfig}

DoGetWidgets ==
    /\ \A c \in Constructors : wcache.started[c] < MaxStarts
    /\ \E cfg \in ConfigLists :
          \E fails \in SUBSET {cfg[i] : i \in 1..Len(cfg)} :
              wcache' = getWidgets(wcache, cfg, fails)
    /\ UNCHANGED <<seriesVars, layoutVars, tile, net, sched, app, top, heap>>

CacheSpecInit ==
    /\ series = NewBoundedSeries(0)
    /\ SeriesInit
    /\ LayoutInit
    /\ TileIdle /\ CacheIdle /\ NetIdle /\ SchedIdle /\ AppIdle /\ TopIdle /\ HeapIdle

NextCache == DoGetWidgets

SpecCache == CacheSpecInit /\ [][NextCache]_vars

\* one tick of the network sampler: the readings of every interface, or an
\* error of the metric source, which periodic turns into a panic
NetTick ==
    /\ net.status = "running"
    /\ net.total < MaxTicks
    /\ \/ net' = [net EXCEPT !.status = "panic", !.total = @ + 1]
       \/ \E bs, br \in [1..Len(Devices) -> ByteReadings] :
             net' = netSample(net, [i \in 1..Len(Devices) |->
                                      [Name |-> Devices[i], BytesSent |-> bs[i],
                                       BytesRecv |-> br[i]]])
    /\ UNCHANGED <<seriesVars, layoutVars, tile, wcache, sched, app, top, heap>>

\* one tick of the disk sampler
DiskTick ==
    /\ net.status = "running"
    /\ net.total < MaxTicks
    /\ \/ net' = [net EXCEPT !.status = "panic", !.total = @ + 1]
       \/ \E name \in Disks, r, w \in CountReadings :
             net' = diskSample(net, [Name |-> name, ReadCount |-> r, WriteCount |-> w])
    /\ UNCHANGED <<seriesVars, layoutVars, tile, wcache, sched, app, top, heap>>

\* one tick of the Disk IO sampler
DiskIOTick ==
    /\ net.status = "running"
    /\ net.total < MaxTicks
    /\ net.diskio.ticks < MaxDiskIOTicks
    /\ \/ net' = [net EXCEPT !.status = "panic", !.total = @ + 1]
       \/ \E iostats \in [Disks -> DiskStats] : net' = diskIOSample(net, iostats)
    /\ UNCHANGED <<seriesVars, layoutVars, tile, wcache, sched, app, top, heap>>

NetSpecInit ==
    /\ series = NewBoundedSeries(0)
    /\ SeriesInit
    /\ LayoutInit
    /\ TileIdle /\ CacheIdle /\ SchedIdle /\ AppIdle /\ TopIdle /\ HeapIdle
    /\ \E interval \in SampleIntervals : net = newCounterSamplers(interval)

NextNet == NetTick \/ DiskTick

SpecNet == NetSpecInit /\ [][NextNet]_vars

NextDisk == DiskIOTick

SpecDisk == NetSpecInit /\ [][NextDisk]_vars

TickerFire(s) ==
    /\ Alive(sched) /\ sched.pc[s] # "exited" /\ ~sched.tick[s]
    /\ sched' = tickerFire(sched, s)
    /\ UNCHANGED <<seriesVars, layoutVars, tile, wcache, net, app, top, heap>>

SelectTick(s) ==
    /\ Alive(sched) /\ canStartBody(sched, s)
    /\ sched' = startBody(sched, s)
    /\ UNCHANGED <<seriesVars, layoutVars, tile, wcache, net, app, top, heap>>

SelectDone(s) ==
    /\ Alive(sched) /\ canReturn(sched, s)
    /\ sched' = exitOnDone(sched, s)
    /\ UNCHANGED <<seriesVars, layoutVars, tile, wcache, net, app, top, heap>>

BodyOk(s) ==
    /\ Alive(sched) /\ sched.pc[s] = "body"
    /\ sched' = bodyDone(sched, s)
    /\ UNCHANGED <<seriesVars, layoutVars, tile, wcache, net, app, top, heap>>

BodyErr(s) ==
    /\ Alive(sched) /\ sched.pc[s] = "body"
    /\ sched' = onError(sched, s)
    /\ UNCHANGED <<seriesVars, layoutVars, tile, wcache, net, app, top, heap>>

\* the tick body runs while or after the quitter cancels ctx, and its
\* context-bound call fails with the cancellation
BodyCancelled(s) ==
    /\ Alive(sched) /\ sched.pc[s] = "body" /\ sched.cancelled
    /\ sched' = onContextError(sched, s)
    /\ UNCHANGED <<seriesVars, layoutVars, tile, wcache, net, app, top, heap>>

BodyHang(s) ==
    /\ Alive(sched) /\ sched.pc[s] = "body"
    /\ sched' = bodyHang(sched, s)
    /\ UNCHANGED <<seriesVars, layoutVars, tile, wcache, net, app, top, heap>>

\* the quitter: a quit key calls cancel()
Cancel ==
    /\ Alive(sched) /\ ~sched.cancelled
    /\ sched' = [sched EXCEPT !.cancelled = TRUE]
    /\ UNCHANGED <<seriesVars, layoutVars, tile, wcache, net, app, top, heap>>

\* termdash.Run returns once the context is done, and main returns
MainReturn ==
    /\ Alive(sched) /\ sched.cancelled
    /\ sched' = [sched EXCEPT !.mainDone = TRUE]
    /\ UNCHANGED <<seriesVars, layoutVars, tile, wcache, net, app, top, heap>>

SchedSpecInit ==
    /\ series = NewBoundedSeries(0)
    /\ SeriesInit
    /\ LayoutInit
    /\ TileIdle /\ CacheIdle /\ NetIdle /\ SchedIdle /\ AppIdle /\ TopIdle /\ HeapIdle

NextSched ==
    \/ \E s \in Samplers : TickerFire(s)
    \/ \E s \in Samplers : SelectTick(s)
    \/ \E s \in Samplers : SelectDone(s)
    \/ \E s \in Samplers : BodyOk(s)
    \/ \E s \in Samplers : BodyErr(s)
    \/ \E s \in Samplers : BodyCancelled(s)
    \/ \E s \in Samplers : BodyHang(s)
    \/ Cancel
    \/ MainReturn

SpecSched == SchedSpecInit /\ [][NextSched]_vars

\* every runtime timer keeps firing, and a goroutine that can take a step
\* is scheduled: it takes a buffered tick, and a call that returns, returns
SchedFairness ==
    \A s \in Samplers :
        /\ WF_vars(TickerFire(s))
        /\ WF_vars(SelectTick(s))
        /\ WF_vars(BodyOk(s) \/ BodyErr(s) \/ BodyCancelled(s) \/ BodyHang(s))

SpecSchedFair == SchedSpecInit /\ [][NextSched]_vars /\ SchedFairness

\* ----------------------------------------------------- BoundedSeries claims
N == series.numValues

K == Len(pushed)

RealSeq(s) == [i \in 1..Len(s) |-> Real(s[i])]

LastN(s, n) == SubSeq(s, Len(s) - n + 1, Len(s))

Mean(s) == Norm(SumInts(s), Len(s))

\* C1 (as stated): for N >= 1 and after any k pushes, Values() has length
\* exactly N and, when k < N, is N-k sentinels followed by the k samples.
C1_Original ==
    (lastCall = "Values" /\ N >= 1) =>
        /\ Len(ret) = N
        /\ (K < N => ret = [i \in 1..(N - K) |-> NaN] \o RealSeq(pushed))

\* C1 (amended): for N >= 1 and after any k pushes, Values() has length
\* exactly min(k, N) and never contains the sentinel; when k < N it is the
\* k pushed samples, oldest first, with no padding.
C1_ValuesLength ==
    (lastCall = "Values" /\ N >= 1) =>
        /\ Len(ret) = Min(K, N)
        /\ \A i \in 1..Len(ret) : ~IsNaN(ret[i])
        /\ (K < N => ret = RealSeq(pushed))

C1_Witness == lastCall = "Values" /\ N >= 2 /\ K >= 1 /\ K < N

\* C2: once at least N values have been pushed, Values() is exactly the N
\* most recently pushed values in arrival order, also after the 2N buffer
\* has filled and started evicting.
C2_MostRecentN ==
    (lastCall = "Values" /\ N >= 1 /\ K >= N) => ret = RealSeq(LastN(pushed, N))

C2_Witness == lastCall = "Values" /\ N >= 1 /\ K > 2 * N + 1

\* C3: while fewer than N values have been pushed, Values() is exactly the
\* k values pushed so far in arrival order, of length k, with no padding.
C3_ShortWindow ==
    (lastCall = "Values" /\ K < N) => (Len(ret) = K /\ ret = RealSeq(pushed))

C3_Witness == lastCall = "Values" /\ N = 3 /\ K = 2

\* the mean of the w raw samples ending at element j (0-based) of the
\* display window, when k >= N
WindowMean(j, w) == Mean(SubSeq(pushed, (K - N + j) - w + 2, K - N + j + 1))

\* C4 (as stated): for any W > 1, once at least N + W samples have been
\* pushed, every element of SmoothedValues(W) is a real value equal to the
\* mean of exactly W consecutive raw samples ending at its position.
C4_Original ==
    (lastCall = "SmoothedValues" /\ window > 1 /\ N >= 1 /\ K >= N + window) =>
        /\ Len(ret) = N
        /\ \A j \in 0..(N - 1) : ret[j + 1] = WindowMean(j, window)

\* C4 (amended): for 1 < W <= N + 1, once at least N + W samples have been
\* pushed, every element of SmoothedValues(W) is a real value equal to the
\* mean of exactly W consecutive raw samples ending at its position, and
\* this keeps holding after further pushes.
C4_FullWindowMean ==
    (/\ lastCall = "SmoothedValues"
     /\ window > 1 /\ window <= N + 1
     /\ N >= 1 /\ K >= N + window) =>
        /\ Len(ret) = N
        /\ \A j \in 0..(N - 1) :
              ~IsNaN(ret[j + 1]) /\ ret[j + 1] = WindowMean(j, window)

C4_Witness ==
    /\ lastCall = "SmoothedValues" /\ N = 3 /\ window = 4 /\ K > 2 * N
    /\ pushed[K] = 1 /\ pushed[K - 1] = 0

\* C5 (as stated): for every window size and after any pushes,
\* SmoothedValues(W) has exactly N elements and every position without
\* history holds the sentinel.
C5_Original ==
    (lastCall = "SmoothedValues" /\ N >= 1) =>
        /\ Len(ret) = N
        /\ \A j \in 1..N : j > K => IsNaN(ret[j])

\* C6: SmoothedValues(W) with W <= 1 returns a result identical to Values().
C6_PassThrough ==
    (lastCall = "SmoothedValues" /\ window <= 1) => ret = Values(series)

C6_Witness == lastCall = "SmoothedValues" /\ window = 1 /\ N >= 2 /\ K = 1

\* C7: warm-up averaging: after k <= N pushes and for W > 1, element j < k
\* of SmoothedValues(W) is the mean of the raw samples max(0, j-W+1)..j and
\* every element j >= k is the sentinel, placed after the real values.
C7_WarmUp ==
    (lastCall = "SmoothedValues" /\ window > 1 /\ N >= 1 /\ K <= N) =>
        /\ Len(ret) = N
        /\ \A j \in 0..(N - 1) :
              ret[j + 1] = IF j < K
                           THEN Mean(SubSeq(pushed, Max(0, j - window + 1) + 1, j + 1))
                           ELSE NaN

C7_Witness ==
    /\ lastCall = "SmoothedValues" /\ window = 2 /\ N = 3
    /\ pushed = <<0, 1>> /\ ret = <<Real(0), <<1, 2>>, NaN>>

\* C8: after any k pushes the buffer has exactly 2N slots, highWater is
\* min(k, 2N), slots [0, highWater) hold the last min(k, 2N) pushed samples
\* in arrival order (so a push into a full buffer evicts exactly the oldest
\* sample) and every slot at index >= highWater holds the sentinel.
C8_BufferInvariant ==
    /\ Len(series.values) = 2 * N
    /\ series.maxValues = 2 * N
    /\ series.highWater = Min(K, 2 * N)
    /\ Slice(series.values, 0, series.highWater) =
           RealSeq(LastN(pushed, Min(K, 2 * N)))
    /\ \A i \in (series.highWater + 1)..(2 * N) : IsNaN(series.values[i])

C8_Witness == lastCall = "AddValue" /\ N >= 1 /\ K = 2 * N + 2

\* ------------------------------------------------------------ layout claims
RECURSIVE Leaves(_)
Leaves(t) ==
    IF t.kind = "widget" THEN <<t>>
    ELSE IF t.kind = "split" THEN Leaves(t.top) \o Leaves(t.bottom)
    ELSE <<>>

\* every node is a widget or a split whose two children are such trees
RECURSIVE WellFormed(_)
WellFormed(t) ==
    IF t.kind = "widget" THEN TRUE
    ELSE IF t.kind = "split"
    THEN /\ WellFormed(t.top) /\ Len(Leaves(t.top)) >= 1
         /\ WellFormed(t.bottom) /\ Len(Leaves(t.bottom)) >= 1
    ELSE FALSE

\* C9: for every widget count W >= 1, layout returns a tree with exactly W
\* leaves that appear, left to right, in the original widget order, and
\* every split node has two non-empty children.
C9_LeavesInOrder ==
    (pc = "done" /\ Len(widgets) >= 1) =>
        /\ err = NoError
        /\ WellFormed(tree)
        /\ Len(Leaves(tree)) = Len(widgets)
        /\ Leaves(tree) = widgets

C9_Witness ==
    /\ pc = "done" /\ Len(widgets) = 5
    /\ tree.kind = "split" /\ tree.bottom.kind = "widget"
    /\ \E i \in 1..4 : widgets[i] # widgets[i + 1]

\* C10: layout on an empty widget list returns the 'no widgets' error: it
\* does not panic, does not index the list and does not return a tree.
C10_EmptyIsError ==
    (pc = "done" /\ widgets = <<>>) => (err = NoWidgetsError /\ tree = Nil)

C10_Witness == pc = "done" /\ Len(widgets) = 0 /\ err # NoError

\* C11: layout on a list of exactly one widget returns that widget's handle
\* itself, with no split node around it.
C11_SingleUnwrapped ==
    (pc = "done" /\ Len(widgets) = 1) =>
        (err = NoError /\ tree = widgets[1] /\ tree.kind = "widget")

C11_Witness == pc = "done" /\ Len(widgets) = 1 /\ tree = Widget(1)

\* C12: layout is total over every non-empty widget list: the recursion
\* ends without a panic, every layoutR call has rangeA < rangeB and
\* rangeA < len(widgets), every index read is below len(widgets), and the
\* input list is left as it was.
C12_Total ==
    [][(pc = "newWidgets" /\ pc' = "done" /\ Len(widgets) >= 1) =>
         /\ widgets' = widgets
         /\ err' = NoError
         /\ ~Aborted(tree') /\ tree' # Nil
         /\ \A i \in 1..Len(trace'.calls) :
               /\ trace'.calls[i][1] >= 0
               /\ trace'.calls[i][1] < trace'.calls[i][2]
               /\ trace'.calls[i][1] < Len(widgets)
         /\ \A r \in trace'.reads : r >= 0 /\ r < Len(widgets)
         /\ trace'.reads = 0..(Len(widgets) - 1)]_vars

C12_Witness ==
    /\ pc = "done" /\ Len(widgets) = 6
    /\ Len(trace.calls) = 6 /\ trace.calls[6] = <<4, 5>>

\* the split nodes of a tree
RECURSIVE Splits(_)
Splits(t) ==
    IF t.kind = "split" THEN {t} \cup Splits(t.top) \cup Splits(t.bottom) ELSE {}

\* the splits that are a direct child of split p
ChildSplits(p) == {c \in {p.top, p.bottom} : c.kind = "split"}

ExponentRule(t) ==
    \A p \in Splits(t) :
        p.orient = IF p.exp % 2 = 1 THEN Flip(tile.splitOrientation)
                   ELSE tile.splitOrientation

\* C13 (as stated): with tile mode on, a split built for a range of 2^k
\* slots is flipped exactly when k is odd, so that for every widget count a
\* split nested directly inside another split has the opposite orientation
\* of its parent.
C13_Original ==
    (pc = "done" /\ tile.tileMode /\ Len(widgets) >= 1) =>
        /\ ExponentRule(tile.tree)
        /\ \A p \in Splits(tile.tree) : \A c \in ChildSplits(p) : c.orient # p.orient

\* C13 (amended): with tile mode on, a split built for a range of 2^k slots
\* is flipped exactly when k is odd; a split nested directly inside another
\* has the opposite orientation of its parent when its range is half the
\* parent's range, which is every nested split when the widget count is a
\* power of two, and it has the parent's orientation when pruning has
\* lifted it over an odd number of levels.
C13_TileOrientation ==
    (pc = "done" /\ tile.tileMode /\ Len(widgets) >= 1) =>
        /\ ExponentRule(tile.tree)
        /\ \A p \in Splits(tile.tree) : \A c \in ChildSplits(p) :
              /\ c.exp < p.exp
              /\ (c.orient # p.orient) <=> ((p.exp - c.exp) % 2 = 1)
              /\ (Len(widgets) = nextPower2(Len(widgets))) => c.exp = p.exp - 1

C13_Witness ==
    /\ pc = "done" /\ tile.tileMode /\ Len(widgets) = 8
    /\ tile.tree.kind = "split" /\ tile.tree.exp = 3
    /\ tile.tree.orient = "SplitHorizontal"
    /\ tile.tree.top.orient = "SplitVertical"

\* ------------------------------------------------------ widget cache claims
\* ref is cached with the options of a constructed widget
IsCached(cache, ref) == ref \in DOMAIN cache /\ cache[ref] # Nil

\* C14: over any sequence of getWidgets calls each widget identifier is
\* constructed at most once and at most one sampler per constructor is ever
\* started; a resolve of an identifier that is cached returns the cached
\* handle, and a call that resolves only cached identifiers leaves the cache
\* and the started samplers as they were.
C14_BuiltOnce ==
    [][LET c  == wcache.cache
           c2 == wcache'.cache
       IN  /\ \A k \in Constructors : wcache'.started[k] <= 1
           /\ \A ref \in CacheIds : wcache'.built[ref] <= 1
           /\ \A ref \in DOMAIN c :
                 IsCached(c, ref) =>
                     /\ IsCached(c2, ref) /\ c2[ref] = c[ref]
                     /\ wcache'.started[Constructor(ref)] = wcache.started[Constructor(ref)]
           /\ \A i \in 1..Len(wcache'.widgets) :
                 IsCached(c, wcache'.config[i]) =>
                     wcache'.widgets[i] = c[wcache'.config[i]]
           /\ (\A i \in 1..Len(wcache'.config) : IsCached(c, wcache'.config[i])) =>
                 /\ c2 = c
                 /\ wcache'.started = wcache.started
                 /\ wcache'.err = NoError
                 /\ wcache'.hits = Len(wcache'.config)]_vars

C14_Witness ==
    /\ wcache.config = <<WidgetCPULoad, WidgetTopMem>>
    /\ wcache.hits = 2 /\ wcache.err = NoError
    /\ wcache.widgets = <<Handle(WidgetCPULoad, 1), Handle(WidgetTopMem, 1)>>
    /\ IsCached(wcache.cache, WidgetNetworkIO)

\* C15: when neither top-CPU nor top-memory is cached, a successful resolve
\* of either one builds both from one newTopBoxes call, starting one
\* sampler, and caches both; every later resolve of either is a cache hit,
\* and over any sequence of calls the sampler of newTopBoxes is started at
\* most once.
C15_CoupledTop ==
    [][LET c  == wcache.cache
           c2 == wcache'.cache
       IN  /\ wcache'.started["newTopBoxes"] <= 1
           /\ IsCached(c2, WidgetTopCPU) <=> IsCached(c2, WidgetTopMem)
           /\ (/\ WidgetTopCPU \notin DOMAIN c /\ WidgetTopMem \notin DOMAIN c
               /\ wcache'.err = NoError
               /\ \E i \in 1..Len(wcache'.config) : wcache'.config[i] \in TopIds) =>
                 /\ c2[WidgetTopCPU] = Handle(WidgetTopCPU, 1)
                 /\ c2[WidgetTopMem] = Handle(WidgetTopMem, 1)
                 /\ wcache.started["newTopBoxes"] = 0
                 /\ wcache'.started["newTopBoxes"] = 1
           /\ IsCached(c, WidgetTopCPU) =>
                 /\ c2[WidgetTopCPU] = c[WidgetTopCPU]
                 /\ c2[WidgetTopMem] = c[WidgetTopMem]
                 /\ wcache'.started["newTopBoxes"] = wcache.started["newTopBoxes"]]_vars

C15_Witness ==
    /\ wcache.config = <<WidgetTopMem>> /\ wcache.hits = 1
    /\ wcache.widgets = <<Handle(WidgetTopMem, 1)>>
    /\ wcache.started["newTopBoxes"] = 1
    /\ wcache.built[WidgetTopCPU] = 1

\* --------------------------------------------------- counter sampler claims
\* C16: each cumulative-counter stream has no value pushed on the first tick
\* of the stream, or of a newly tracked device, and exactly one value pushed
\* on every later tick, whatever the readings are.
C16_Original ==
    /\ net.ticks >= 1 =>
          /\ Len(net.sent) = net.ticks - 1
          /\ Len(net.recv) = net.ticks - 1
    /\ net.disk.ticks >= 1 =>
          /\ Len(net.disk.read) = net.disk.ticks - 1
          /\ Len(net.disk.write) = net.disk.ticks - 1

\* C17: a tick that finds another busiest interface than the tracked one
\* replaces both series with fresh stores, forgets both previous readings,
\* records the new device and pushes nothing; every value in the series is
\* the difference of two readings of the tracked device.
C17_HandOff ==
    [][(net'.total = net.total + 1 /\ net'.status = "running"
          /\ net'.ticks # net.ticks) =>
           /\ net'.device = net'.iostat.Name
           /\ (net'.device # net.device) =>
                 /\ net'.handoff
                 /\ net'.sent = <<>> /\ net'.recv = <<>>
                 /\ net'.ticks = 1
                 /\ net'.lastSent = Scale(net'.iostat.BytesSent, net.interval)
                 /\ net'.lastRecv = Scale(net'.iostat.BytesRecv, net.interval)
           /\ \A e \in {net'.sent[i] : i \in 1..Len(net'.sent)}
                     \cup {net'.recv[i] : i \in 1..Len(net'.recv)} :
                 e.of = net'.device /\ e.against = net'.device]_vars

C17_Witness ==
    /\ net.total = 3 /\ net.from = "lo0" /\ net.device = "en0" /\ net.ticks = 2
    /\ Len(net.recv) = 1 /\ net.recv[1].against = "en0"
    /\ net.interval = 500

\* ----------------------------------------------------------- periodic claims
\* C18: after the cancellation signal fires every sampler exits: it starts
\* at most one tick body after the cancellation.
C18_Original ==
    \A s \in Samplers : sched.afterCancel[s] <= 1

\* C19: an error returned by a sampler's tick body is fatal: the first
\* failure ends the process, the failed call is not tried again, and once
\* the process has ended no sampler takes another step.
C19_Fatal ==
    [][/\ \A s \in Samplers :
             sched'.failed[s] > sched.failed[s] =>
                 /\ sched'.crashed
                 /\ sched'.failed[s] = 1
                 /\ \A t \in Samplers \ {s} : sched'.failed[t] = 0
                 /\ sched'.pc = sched.pc /\ sched'.phase = sched.phase
       /\ sched.crashed => sched' = sched]_vars

C19_Witness ==
    /\ sched.crashed /\ sched.failed["newTopBoxes"] = 1
    /\ sched.pc["newTopBoxes"] = "body"
    /\ sched.pc["newLoadChart"] = "select" /\ sched.tick["newLoadChart"]
    /\ sched.phase["newLoadChart"] = 1
    /\ ~sched.cancelled

\* C20: a sampler whose metric-source call never returns stalls only
\* itself: as long as the process runs and is not cancelled, every sampler
\* that is not hung itself completes tick bodies again and again.
C20_Independence ==
    \A s \in Samplers :
        /\ []<>(sched.crashed \/ sched.cancelled \/ sched.pc[s] = "hung"
                  \/ sched.phase[s] = 0)
        /\ []<>(sched.crashed \/ sched.cancelled \/ sched.pc[s] = "hung"
                  \/ sched.phase[s] = 1)

C20_Witness ==
    /\ sched.pc["newTopBoxes"] = "hung" /\ sched.phaseAtHang # Nil
    /\ ~sched.crashed /\ ~sched.cancelled
    /\ sched.pc["newLoadChart"] = "select"
    /\ sched.phase["newLoadChart"] # sched.phaseAtHang["newLoadChart"]

\* C21: the BoundedSeries of a sampler are used only by the sampler's own
\* closure, and at most one invocation of that closure is in flight at any
\* time: it is in flight exactly while the sampler's goroutine is inside its
\* tick body, also while another sampler is inside its own.
C21_NoOverlap ==
    \A s \in Samplers :
        /\ sched.inFn[s] <= 1
        /\ sched.inFn[s] = 1 <=> sched.pc[s] \in {"body", "hung"}

C21_Witness ==
    /\ sched.inFn["newLoadChart"] = 1 /\ sched.phase["newLoadChart"] = 1
    /\ sched.tick["newLoadChart"]
    /\ sched.inFn["newTopBoxes"] = 1
    /\ ~sched.crashed

\* C22: a series is never created with a capacity below 1: every store
\* that exists has numValues >= 1.
C22_Original == series.numValues >= 1

\* C23: every value pushed for a cumulative-counter stream equals
\* (current reading - previous reading) x (sample intervals per second),
\* for every permitted sample interval; checked on the streams of the disk
\* sampler, with the interval in milliseconds.
C23_Original ==
    \A e \in {net.disk.read[i] : i \in 1..Len(net.disk.read)}
               \cup {net.disk.write[i] : i \in 1..Len(net.disk.write)} :
        e.v.rest * net.interval = (e.new - e.last) * 1000

\* C24: every delta pushed by a disk sampler is the difference of two
\* readings of the same disk, also when several disks are reported.
C24_Original ==
    \A e \in {net.disk.read[i] : i \in 1..Len(net.disk.read)}
               \cup {net.disk.write[i] : i \in 1..Len(net.disk.write)} :
        e.of = e.against

\* C25: every value the Disk IO sampler pushes is the change of the byte
\* counters (bytes read, bytes written) in kibibytes per second.
C25_Original ==
    \A e \in {net.diskio.read[i] : i \in 1..Len(net.diskio.read)}
               \cup {net.diskio.write[i] : i \in 1..Len(net.diskio.write)} :
        e.v.rest = e.bytes

\* ------------------------------------------------- layout structure claims
IsPowerOf2(n) == n >= 1 /\ nextPower2(n) = n

RECURSIVE CountSplits(_)
CountSplits(t) ==
    IF t.kind = "split" THEN 1 + CountSplits(t.top) + CountSplits(t.bottom) ELSE 0

\* C26: every range layoutR is called on has a power-of-two size, and
\* whenever the call for the range [a, b] of size 2^k makes a split node,
\* its first child holds exactly the widgets a .. a+2^(k-1)-1 and its second
\* child the widgets a+2^(k-1) .. min(b, W-1), between 1 and 2^(k-1) of
\* them; every split of the tree is made by one such call, and the first
\* child of every split holds a power-of-two number of widgets.
C26_SplitStructure ==
    (pc = "done" /\ Len(widgets) >= 2) =>
        /\ tree = layoutR(widgets, trace.calls[1][1], trace.calls[1][2])
        /\ \A i \in 1..Len(trace.calls) :
              IsPowerOf2(trace.calls[i][2] - trace.calls[i][1] + 1)
        /\ \A r \in trace.splits :
              LET a == r[1]
                  b == r[2]
                  h == (b - a + 1) \div 2
                  t == layoutR(widgets, a, b)
              IN  /\ t.kind = "split"
                  /\ Len(Leaves(t.top)) = h
                  /\ Leaves(t.top) = SubSeq(widgets, a + 1, a + h)
                  /\ Leaves(t.bottom) =
                         SubSeq(widgets, a + h + 1, Min(b, Len(widgets) - 1) + 1)
                  /\ Len(Leaves(t.bottom)) >= 1
                  /\ Len(Leaves(t.bottom)) <= h
        /\ CountSplits(tree) = Cardinality(trace.splits)
        /\ \A p \in Splits(tree) : IsPowerOf2(Len(Leaves(p.top)))

C26_Witness ==
    /\ pc = "done" /\ Len(widgets) = 7
    /\ tree.kind = "split" /\ Len(Leaves(tree.top)) = 4
    /\ Len(Leaves(tree.bottom)) = 3
    /\ tree.bottom.kind = "split" /\ tree.bottom.bottom.kind = "widget"
    /\ widgets[4] # widgets[5]

\* the largest number of split nodes between the root of t and one of its leaves
RECURSIVE Depth(_)
Depth(t) ==
    IF t.kind = "split" THEN 1 + Max(Depth(t.top), Depth(t.bottom)) ELSE 0

CeilLog2(n) == CHOOSE k \in 0..n : 2^k >= n /\ \A j \in 0..(k - 1) : 2^j < n

\* C27: for every widget count W >= 1, no leaf of the tree layout returns
\* lies more than ceil(log2 W) split nodes below the root.
C27_Balance ==
    (pc = "done" /\ Len(widgets) >= 1) =>
        /\ err = NoError
        /\ tree = layout(widgets).tree
        /\ Depth(tree) <= CeilLog2(Len(widgets))

C27_Witness ==
    /\ pc = "done"
    /\ Len(widgets) = 5
    /\ Depth(tree) = 3
    /\ Depth(tree.top) = 2
    /\ tree.bottom.kind = "widget"

\* C28: when getWidgets returns without error, the returned list has exactly
\* one handle per entry of config.Widgets, in the configured order, and entry
\* i is the handle the cache holds for the identifier config.Widgets[i].
C28_Original ==
    wcache.err = NoError =>
        /\ Len(wcache.widgets) = Len(wcache.config)
        /\ \A i \in 1..Len(wcache.config) :
              /\ IsCached(wcache.cache, wcache.config[i])
              /\ wcache.widgets[i] = wcache.cache[wcache.config[i]]
              /\ wcache.widgets[i].id = wcache.config[i]

\* the value e was pushed on tick k of the network sampler: it is the
\* difference of the readings of ticks k and k-1, both of the tracked
\* device and both taken since it became the tracked device
PushedOn(e, k, field) ==
    /\ k - 1 > Len(net.readings) - net.ticks
    /\ net.readings[k].name = net.device
    /\ net.readings[k - 1].name = net.device
    /\ e.new = net.readings[k][field]
    /\ e.last = net.readings[k - 1][field]
    /\ e.v = Sub64(net.readings[k][field], net.readings[k - 1][field])
    /\ e.of = net.device /\ e.against = net.device

\* C29: in every reachable state every value held in the sent and recv
\* series of the network chart is the difference of two consecutive readings
\* of the currently tracked device; after a hand-off no value computed from
\* the device tracked before remains.
C29_Purity ==
    /\ net.ticks <= Len(net.readings)
    /\ Len(net.sent) < Max(net.ticks, 1) /\ Len(net.recv) < Max(net.ticks, 1)
    /\ \A i \in 1..Len(net.sent) :
          \E k \in 2..Len(net.readings) : PushedOn(net.sent[i], k, "sent")
    /\ \A i \in 1..Len(net.recv) :
          \E k \in 2..Len(net.readings) : PushedOn(net.recv[i], k, "recv")
    /\ net.handoff => net.sent = <<>> /\ net.recv = <<>>

\* the sampler tracked lo0 and pushed a value for it, then en0 became the
\* busiest interface
C29_Witness ==
    /\ net.status = "running" /\ net.handoff
    /\ net.from = "lo0" /\ net.device = "en0"
    /\ Len(net.readings) = 3
    /\ net.readings[1].name = "lo0" /\ net.readings[2].name = "lo0"
    /\ net.readings[1].sent # 0 /\ net.readings[1].recv # 0
    /\ net.readings[2].sent # net.readings[1].sent
    /\ net.sent = <<>> /\ net.recv = <<>> /\ net.ticks = 1

Flagged ==
    {w \in WidgetCPULoad..WidgetTopMem :
        \/ w = WidgetCPULoad /\ app.cli.CpuLoad
        \/ w = WidgetCPUPerc /\ app.cli.CpuPercent
        \/ w = WidgetDiskIOPS /\ app.cli.DiskIops
        \/ w = WidgetDiskIO /\ app.cli.DiskIo
        \/ w = WidgetNetworkIO /\ app.cli.NetworkIo
        \/ w = WidgetTopCPU /\ app.cli.TopCpu
        \/ w = WidgetTopMem /\ app.cli.TopMemory}

\* load, CPU%, disk IOPS, disk IO, network, top-CPU, top-memory
FixedOrder ==
    <<WidgetCPULoad, WidgetCPUPerc, WidgetDiskIOPS, WidgetDiskIO, WidgetNetworkIO,
      WidgetTopCPU, WidgetTopMem>>

Rank(w) == CHOOSE i \in 1..Len(FixedOrder) : FixedOrder[i] = w

\* C31: once ApplyFlags has returned without error, the widget list is the
\* default [load, CPU%, network, disk IOPS] if no widget flag is set, and
\* otherwise holds exactly the flagged widgets, each once, in the fixed order
\* load, CPU%, disk IOPS, disk IO, network, top-CPU, top-memory.
C31_WidgetSelection ==
    app.pc \in {"Finalize", "newWidgets", "Run"} =>
        LET ws == app.config.Widgets
        IN  /\ app.config.SelectWidgetsMode <=> Flagged # {}
            /\ Flagged = {} =>
                  ws = <<WidgetCPULoad, WidgetCPUPerc, WidgetNetworkIO, WidgetDiskIOPS>>
            /\ Flagged # {} =>
                  /\ Len(ws) = Cardinality(Flagged)
                  /\ {ws[i] : i \in 1..Len(ws)} = Flagged
                  /\ \A i, j \in 1..Len(ws) : i < j => Rank(ws[i]) < Rank(ws[j])

C31_Witness ==
    /\ app.pc = "Run"
    /\ app.cli.DiskIops /\ app.cli.NetworkIo /\ app.cli.TopMemory
    /\ app.config.Widgets = <<WidgetDiskIOPS, WidgetNetworkIO, WidgetTopMem>>
    /\ app.widgets = app.config.Widgets

\* C32: ApplyFlags returns an error, and main exits before any widget or
\* sampler is started, when the redraw interval is below 50 ms or the sample
\* interval is below 20 ms; otherwise it returns no error and stores both
\* intervals as given.
C32_IntervalCheck ==
    app.pc \in {"Exit(1)", "Finalize", "newWidgets", "Run"} =>
        LET bad == app.cli.RedrawInterval < 50 \/ app.cli.SampleInterval < 20
        IN  /\ bad <=> app.err # NoError
            /\ bad <=> app.pc = "Exit(1)"
            /\ bad => app.started = {} /\ app.widgets = <<>>
            /\ ~bad =>
                  /\ app.config.RedrawInterval = app.cli.RedrawInterval * 1000
                  /\ app.config.SampleInterval = app.cli.SampleInterval * 1000

C32_Witness ==
    /\ app.pc = "Exit(1)" /\ app.err = SampleError
    /\ app.cli.RedrawInterval = 50 /\ app.cli.SampleInterval = 19
    /\ app.cli.CpuLoad
    /\ app.started = {}

\* ------------------------------------------------------ top processes claims
Pids(list) == {list[i].Pid : i \in 1..Len(list)}

\* list holds rows processes of procs, none twice, in non-increasing order
\* of key, and no process left out has a larger key than one in the list
IsTopList(list, procs, key, rows) ==
    /\ Len(list) = Min(rows, Len(procs))
    /\ \A i \in 1..Len(list) : \E k \in 1..Len(procs) : procs[k] = list[i]
    /\ Cardinality(Pids(list)) = Len(list)
    /\ \A i \in 1..(Len(list) - 1) : list[i][key] >= list[i + 1][key]
    /\ \A k \in 1..Len(procs) :
          procs[k].Pid \notin Pids(list) =>
              \A i \in 1..Len(list) : list[i][key] >= procs[k][key]

\* C33: topProcesses returns two lists of min(TopRowsShown, number of
\* processes) entries each: the first holds the processes with the highest
\* CPU% in non-increasing CPU% order, the second those with the highest
\* memory% in non-increasing memory% order; the second sort leaves the CPU
\* list as it was taken.
C33_TopLists ==
    top.pc = "return" =>
        /\ IsTopList(top.procsByCpu, top.procs, "CpuPerc", top.TopRowsShown)
        /\ IsTopList(top.procsByMem, top.procs, "MemPerc", top.TopRowsShown)

C33_Witness ==
    /\ top.pc = "return" /\ top.TopRowsShown = 2 /\ Len(top.procs) = 3
    /\ Len(top.procsByCpu) = 2 /\ Len(top.procsByMem) = 2
    /\ top.procsByCpu[1].Pid = 3 /\ top.procsByCpu[2].Pid = 1
    /\ top.procsByMem[1].Pid = 2 /\ top.procsByMem[2].Pid = 3
    /\ top.procsByCpu[1].CpuPerc > top.procsByCpu[2].CpuPerc

\* ------------------------------------------------------------ numeric claims
\* the values held in the series of the rate samplers
RateValues ==
    {net.sent[i] : i \in 1..Len(net.sent)} \cup {net.recv[i] : i \in 1..Len(net.recv)}
        \cup {net.disk.read[i] : i \in 1..Len(net.disk.read)}
        \cup {net.disk.write[i] : i \in 1..Len(net.disk.write)}

\* C34: every value pushed by a rate sampler is the signed difference of the
\* two readings it was computed from (times the per-second factor): a
\* reading lower than the previous one does not put a value wrapped around
\* 2^64 in the series.
C34_Original ==
    \A e \in RateValues : e.v.wraps = 0

\* ---------------------------------------------------------- shutdown claims
\* C35: after the quit key cancels the shared context no sampler brings the
\* process down because of the shutdown: a tick body that is in flight at,
\* or starts after, the cancellation and whose context-bound metric call
\* then fails does not panic before the sampler sees the cancellation.
C35_Original ==
    sched.crashed => sched.cause # ContextCanceled

\* ------------------------------------------------------- cache error claims
\* C36: after any getWidgets call, a failed one included, every entry of the
\* cache is a constructed, non-nil handle: a failed newTopBoxes leaves no
\* entry for the widget asked for or for its sibling.
C36_Original ==
    \A ref \in DOMAIN wcache.cache : wcache.cache[ref] # Nil

\* C37: the cache only grows: over any sequence of getWidgets calls every
\* key stays in the cache, a handle once cached is the handle cached from
\* then on, also while its identifier is not in the configured list, and no
\* call lowers the number of samplers started (no call stops one).
C37_CacheGrows ==
    [][/\ \A ref \in DOMAIN wcache.cache :
             /\ ref \in DOMAIN wcache'.cache
             /\ wcache.cache[ref] # Nil =>
                   /\ wcache'.cache[ref] = wcache.cache[ref]
                   /\ wcache'.started[Constructor(ref)] >= 1
       /\ \A k \in Constructors : wcache'.started[k] >= wcache.started[k]
       /\ \A ref \in DOMAIN wcache'.cache :
             wcache'.cache[ref] # Nil => wcache'.started[Constructor(ref)] >= 1]_vars

\* the network chart was built by an earlier call and is not in the list now
C37_Witness ==
    /\ wcache.config = <<WidgetCPULoad>> /\ wcache.hits = 1 /\ wcache.err = NoError
    /\ DOMAIN wcache.cache = {WidgetCPULoad, WidgetNetworkIO}
    /\ wcache.cache[WidgetNetworkIO] = Handle(WidgetNetworkIO, 1)
    /\ wcache.started["newNetChart"] = 1

\* ------------------------------------------------------------ aliasing claims
\* C38: a slice returned by Values() aliases the buffer and is never changed
\* by later AddValue calls: while the buffer fills and while it evicts,
\* every write lands outside the elements of every slice returned before.
C38_SlicesStable ==
    /\ \A i \in 1..Len(heap.held) :
          ReadSlice(heap, heap.held[i].slice) = heap.held[i].seen
    /\ heap.values.len = heap.maxValues

\* a slice taken while the buffer was filling and one taken from the array
\* append made are both still held after a push that append stored in place
C38_Witness ==
    /\ heap.numValues = 1 /\ heap.adds = 4 /\ Len(heap.held) = 2
    /\ heap.held[1].slice.arr = 1 /\ heap.held[1].slice.len = 1
    /\ heap.held[2].slice.arr = 2 /\ heap.held[2].slice.len = 1
    /\ heap.values.arr = 2 /\ heap.values.off = 2
    /\ heap.held[2].seen # <<heap.arrays[2][4]>>

====
